---- MODULE Spec2Model ----
(***************************************************************************)
(* Model of pkg/controller/utils/utils.go of gardener-resource-manager:    *)
(* the optimistic transform-and-update loop (TryUpdate, TryUpdateStatus,   *)
(* tryUpdate, exponentialBackoff) and the finalizer helpers                *)
(* (EnsureFinalizer, DeleteFinalizer), run against an object store that    *)
(* versions the object with a resourceVersion.                             *)
(***************************************************************************)
EXTENDS Integers, Sequences, FiniteSets, TLC

(* ------------------------------ bounds --------------------------------- *)

\* largest backoff.Steps a caller passes
MaxSteps == 5
\* the other writers write while the resourceVersion is below MaxRV
MaxRV == 3
\* the object's body takes the values 0..MaxBody
MaxBody == 1
\* the other writers change the finalizers while the resourceVersion is
\* below MaxFinRV
MaxFinRV == 6
\* backoff.Duration takes the values 1..MaxDuration (nanoseconds)
MaxDuration == 3

(* ----------------------------- constants ------------------------------- *)

\* retry.DefaultRetry.Steps, the policy EnsureFinalizer/DeleteFinalizer pass
DefaultRetrySteps == 5

Procs == {1, 2}
\* the caller whose TryUpdate call runs against the other writers
Solo == {1}
\* the finalizer names the callers of EnsureFinalizer/DeleteFinalizer manage
Markers == {"a", "b"}
\* those and the finalizer of some other controller
AllMarkers == Markers \cup {"x"}
Bodies == 0..MaxBody
Statuses == {0, 1}

\* the requeue delay, in seconds, that Reconcile returns with a failed mutation
RequeueAfterSeconds == 5

\* the class of the reconciler's ClassFilter and the finalizer derived from it
FilterClass == "seed"
FilterMarker == "a"
\* the namespace of the reconciled secret, and another one
SecretNamespace == "mr-ns"
Namespaces == {SecretNamespace, "other-ns"}
\* the classes a parent resource can have
Classes == {FilterClass, "other"}
ParentIds == {1, 2}
\* a parent slot that holds no resource
NoParent == [present |-> FALSE, ns |-> SecretNamespace, class |-> FilterClass,
             refs |-> FALSE]
\* a parent resource: its namespace, its class, and whether its secretRefs
\* name the reconciled secret
ParentStates ==
  {NoParent} \cup [present : {TRUE}, ns : Namespaces, class : Classes,
                   refs : BOOLEAN]

VARIABLES
  store,      \* the remote object: [exists, rv, body, status, fin]
  ctxDone,    \* ctxDone[p]: the ctx of p's TryUpdate call is cancelled
  tu,         \* tu[p]: the TryUpdate / TryUpdateStatus call of caller p
  fz,         \* fz[p]: the EnsureFinalizer / DeleteFinalizer call of caller p
  rc,         \* the Reconcile call of the secret reconciler
  parents,    \* parents[k]: the k-th parent resource (ManagedResource)
  cu          \* the TypedCreateOrUpdate call

vars == <<store, ctxDone, tu, fz, rc, parents, cu>>

(* ------------------------------ objects -------------------------------- *)

\* the in-memory object a caller passes in before any fetch
ZeroObj == [rv |-> 0, body |-> 0, status |-> 0, fin |-> <<>>]

\* what a successful Get copies into obj
StoredObj == [rv |-> store.rv, body |-> store.body, status |-> store.status,
              fin |-> store.fin]

(* ------------------------- the object store ---------------------------- *)

\* the answers c.Get can give; a cancelled ctx may (a ctx-aware client) or
\* may not (a cache, a fake) make the call fail
GetAnswers(done) ==
  {IF store.exists THEN "ok" ELSE "NotFound"} \cup {"Unavailable"}
    \cup (IF done THEN {"Canceled"} ELSE {})

\* the answers c.Update / c.Status().Update can give for object o
UpdateAnswers(o, done) ==
  {IF ~store.exists THEN "NotFound"
   ELSE IF o.rv # store.rv THEN "Conflict" ELSE "ok"} \cup {"Unavailable"}
    \cup (IF done THEN {"Canceled"} ELSE {})

\* a status write that stores the whole in-memory object
CommittedWholeObject(o, mode) ==
  [store EXCEPT !.rv = @ + 1, !.body = o.body, !.status = o.status,
                !.fin = o.fin]

\* the store after c.Update (mode "update": the main resource) or
\* c.Status().Update (mode "status": only the status sub-resource) of o
Committed(o, mode) ==
  IF mode = "status"
  THEN [store EXCEPT !.rv = @ + 1, !.status = o.status]
  ELSE [store EXCEPT !.rv = @ + 1, !.body = o.body, !.fin = o.fin]

(* --------------------------- transform() ------------------------------- *)

Transforms ==
  {"noop", "incBody", "setBody", "setStatus", "setBoth", "incOrFail"}

\* the caller's transform func returns an error: "incOrFail" refuses an
\* object whose body is already MaxBody
TransformFails(t, o) == t = "incOrFail" /\ o.body = MaxBody

\* the caller's transform func, mutating the in-memory object
ApplyTransform(t, o) ==
  CASE t = "incBody" -> [o EXCEPT !.body = (@ + 1) % (MaxBody + 1)]
    [] t = "setBody" -> [o EXCEPT !.body = 1]
    [] t = "setStatus" -> [o EXCEPT !.status = 1]
    [] t = "setBoth" -> [o EXCEPT !.body = 1, !.status = 1]
    [] t = "incOrFail" /\ ~TransformFails(t, o) -> [o EXCEPT !.body = @ + 1]
    [] OTHER -> o

(* ------------------------- tryUpdate's pieces -------------------------- *)

\* a Get that only refreshes the resourceVersion of the in-memory object
FetchedKeepingContent(old) == [old EXCEPT !.rv = store.rv]

\* c.Get(ctx, key, obj): obj becomes the stored object
Fetched(old) == StoredObj

\* a comparison that never finds the object unchanged
UnchangedNever(o, before) == FALSE

\* reflect.DeepEqual(obj, beforeTransform)
Unchanged(o, before) == o = before

\* a classification that retries every failed write
RetriableAnyError(ans) == ans # "ok"

\* apierrors.IsConflict(err): the only write error the loop retries
Retriable(ans) == ans = "Conflict"

\* a loop counter that does not advance
NextIStuck(i) == i

\* the loop counter after one pass of the body: the body's own i++ and the
\* for statement's i++
NextI(i) == (i + 1) + 1

\* the for statement's condition
LoopGoesOn(i, steps) == i < steps

\* backoff.Duration in nanoseconds, backoff.Factor and backoff.Jitter as
\* fractions
Durations == 1..MaxDuration
Factors == {[num |-> 1, den |-> 1], [num |-> 2, den |-> 1],
            [num |-> 3, den |-> 2]}
Jitters == {[num |-> 0, den |-> 1], [num |-> 1, den |-> 2],
            [num |-> 1, den |-> 1]}

\* a duration that does not grow
ScaledUnscaled(d, f) == d

\* time.Duration(float64(duration) * backoff.Factor): the product, cut
\* down to whole nanoseconds
Scaled(d, f) == (d * f.num) \div f.den

\* the sleeps wait.Jitter(duration, backoff.Jitter) can give:
\* duration + Duration(rand.Float64() * jitter * float64(duration)), with
\* rand.Float64() in [0, 1); the duration itself when jitter is 0
Jittered(d, j) ==
  IF j.num > 0
  THEN {d + x : x \in {y \in 0..(d * j.num) : y = 0 \/ y * j.den < d * j.num}}
  ELSE {d}

(* ------------------------------- Init ---------------------------------- *)

IdleTU == [pc |-> "idle", mode |-> "update", steps |-> 0, transform |-> "noop",
           i |-> 0, obj |-> ZeroObj, before |-> ZeroObj, err |-> "none",
           nGet |-> 0, nTransform |-> 0, nWrite |-> 0, nSleep |-> 0,
           nConflict |-> 0, getAns |-> "none", writeAns |-> "none",
           cancelInSleep |-> FALSE, getsAtCancel |-> 0, initial |-> 1,
           duration |-> 1, factor |-> [num |-> 1, den |-> 1],
           jitter |-> [num |-> 0, den |-> 1], lastBase |-> 0,
           lastSleep |-> 0]

IdleFZ == [pc |-> "idle", op |-> "Ensure", marker |-> "a", left |-> 0,
           obj |-> ZeroObj, base |-> ZeroObj, err |-> "none", nGet |-> 0,
           nPatch |-> 0, nConflict |-> 0, getAns |-> "none",
           patchAns |-> "none"]

IdleRC == [pc |-> "idle", obj |-> ZeroObj, referenced |-> FALSE,
           err |-> "none", requeueAfter |-> 0, nGet |-> 0, nList |-> 0,
           nMutate |-> 0, getAns |-> "none", listAns |-> "none",
           dirty |-> FALSE, prev |-> "none"]

IdleCU == [pc |-> "idle", kind |-> "typed", alwaysUpdate |-> FALSE,
           mutate |-> "noop", convertOK |-> TRUE, obj |-> ZeroObj,
           existing |-> ZeroObj, found |-> FALSE, result |-> "none",
           err |-> "none", nGet |-> 0, nMutate |-> 0, nCreate |-> 0,
           nUpdate |-> 0, getAns |-> "none", writeAns |-> "none"]

\* no Reconcile and no TypedCreateOrUpdate call runs, no parent exists
Quiet ==
  /\ rc = IdleRC
  /\ parents = [k \in ParentIds |-> NoParent]
  /\ cu = IdleCU

Init ==
  /\ store \in [exists : {TRUE}, rv : {1}, body : Bodies, status : Statuses,
                fin : {<<>>}]
  /\ ctxDone = [p \in Procs |-> FALSE]
  /\ tu = [p \in Procs |-> IdleTU]
  /\ fz = [p \in Procs |-> IdleFZ]
  /\ Quiet

(* ------------------------ TryUpdate(Status) ---------------------------- *)

Finish(c, e) == [c EXCEPT !.pc = "done", !.err = e]

\* the head of exponentialBackoff's for loop
LoopHead(c) ==
  IF LoopGoesOn(c.i, c.steps) THEN [c EXCEPT !.pc = "get"]
  ELSE Finish(c, "ErrWaitTimeout")

\* TryUpdate (mode "update") or TryUpdateStatus (mode "status") is called
\* with a policy and a transform: tryUpdate enters exponentialBackoff
StartWith(p, modes, stepss, transforms) ==
  /\ tu[p].pc = "idle"
  /\ \E m \in modes, s \in stepss, t \in transforms :
       tu' = [tu EXCEPT ![p] =
                LoopHead([@ EXCEPT !.mode = m, !.steps = s, !.transform = t,
                                   !.i = 0])]
  /\ UNCHANGED <<store, ctxDone, fz, rc, parents, cu>>

TUStart(p) == StartWith(p, {"update", "status"}, 0..MaxSteps, Transforms)

\* two callers of TryUpdate race with the same policy
TUStartRace(p) == StartWith(p, {"update"}, {MaxSteps}, {"incBody", "setBody"})

\* TryUpdate is called with a backoff policy of MaxSteps steps
TUStartBackoff(p) ==
  /\ tu[p].pc = "idle"
  /\ \E d \in Durations, f \in Factors, j \in Jitters :
       tu' = [tu EXCEPT ![p] =
                LoopHead([@ EXCEPT !.steps = MaxSteps,
                                   !.transform = "incBody", !.i = 0,
                                   !.initial = d, !.duration = d,
                                   !.factor = f, !.jitter = j])]
  /\ UNCHANGED <<store, ctxDone, fz, rc, parents, cu>>

\* condition(), up to the write: Get, DeepCopy, transform, DeepEqual
TUAttempt(p) ==
  /\ tu[p].pc = "get"
  /\ \E ans \in GetAnswers(ctxDone[p]) :
       LET c == [tu[p] EXCEPT !.nGet = @ + 1, !.getAns = ans]
           fetched == Fetched(c.obj)
           after == ApplyTransform(c.transform, fetched)
           ct == [c EXCEPT !.nTransform = @ + 1, !.before = fetched,
                           !.obj = after]
       IN tu' = [tu EXCEPT ![p] =
                   IF ans # "ok" THEN Finish(c, ans)
                   ELSE IF TransformFails(c.transform, fetched)
                     THEN Finish(ct, "TransformErr")
                   ELSE IF Unchanged(after, fetched) THEN Finish(ct, "nil")
                   ELSE [ct EXCEPT !.pc = "update"]]
  /\ UNCHANGED <<store, ctxDone, fz, rc, parents, cu>>

\* updateFunc(ctx, obj), the classification of its error, and the select
TUWrite(p) ==
  /\ tu[p].pc = "update"
  /\ \E ans \in UpdateAnswers(tu[p].obj, ctxDone[p]),
        adjusted \in Jittered(tu[p].duration, tu[p].jitter) :
       LET c == [tu[p] EXCEPT !.nWrite = @ + 1, !.writeAns = ans,
                              !.before = ZeroObj] IN
       /\ store' = IF ans = "ok" THEN Committed(c.obj, c.mode) ELSE store
       /\ tu' = [tu EXCEPT ![p] =
                   IF ans = "ok"
                     THEN Finish([c EXCEPT !.obj.rv = store.rv + 1], "nil")
                   ELSE IF ~Retriable(ans) THEN Finish(c, ans)
                   ELSE IF ctxDone[p]
                     THEN Finish([c EXCEPT !.nConflict = @ + 1], "Canceled")
                   ELSE [c EXCEPT !.nConflict = @ + 1, !.nSleep = @ + 1,
                                  !.pc = "sleep", !.lastBase = c.duration,
                                  !.lastSleep = adjusted]]
  /\ UNCHANGED <<ctxDone, fz, rc, parents, cu>>

\* time.Sleep(adjusted) returns; the loop counter advances
TUSleep(p) ==
  /\ tu[p].pc = "sleep"
  /\ tu' = [tu EXCEPT ![p] =
              LoopHead([@ EXCEPT !.i = NextI(@),
                                 !.duration = Scaled(@, tu[p].factor)])]
  /\ UNCHANGED <<store, ctxDone, fz, rc, parents, cu>>

\* the caller cancels ctx while the call runs
Cancel(p) ==
  /\ tu[p].pc \in {"get", "update", "sleep"}
  /\ ~ctxDone[p]
  /\ ctxDone' = [ctxDone EXCEPT ![p] = TRUE]
  /\ tu' = [tu EXCEPT ![p] =
              IF tu[p].pc = "sleep"
              THEN [tu[p] EXCEPT !.cancelInSleep = TRUE,
                                 !.getsAtCancel = tu[p].nGet]
              ELSE tu[p]]
  /\ UNCHANGED <<store, fz, rc, parents, cu>>

(* ------------------ EnsureFinalizer, DeleteFinalizer ------------------- *)

\* controllerutil.ContainsFinalizer
ContainsFinalizer(o, m) == \E k \in 1..Len(o.fin) : o.fin[k] = m

\* an AddFinalizer that leaves the list as it is
AddFinalizerNoop(f, m) == f

\* a RemoveFinalizer that leaves the list as it is
RemoveFinalizerNoop(f, m) == f

\* an AddFinalizer that overwrites the list
AddFinalizerOverwriting(f, m) == <<m>>

\* controllerutil.AddFinalizer: appends m unless it is in the list
AddFinalizer(f, m) ==
  IF \E k \in 1..Len(f) : f[k] = m THEN f ELSE Append(f, m)

\* controllerutil.RemoveFinalizer: drops every occurrence of m
RemoveFinalizer(f, m) == SelectSeq(f, LAMBDA e : e # m)

\* a merge patch without the optimistic lock
PatchWithoutLock == FALSE

\* client.MergeFromWithOptimisticLock{}: the patch carries the
\* resourceVersion of beforePatch
PatchUsesLock == TRUE

\* a retry that gives up on the first Conflict
FinRetriableNever(ans) == FALSE

\* retry.RetryOnConflict: the errors it retries (apierrors.IsConflict)
FinRetriable(ans) == ans = "Conflict"

\* the answers c.Get can give to the finalizer helpers
FinGetAnswers == {IF store.exists THEN "ok" ELSE "NotFound"} \cup {"Unavailable"}

\* the answers c.Patch can give for a merge patch computed against base
PatchAnswers(base) ==
  {IF ~store.exists THEN "NotFound"
   ELSE IF PatchUsesLock /\ base.rv # store.rv THEN "Conflict"
   ELSE "ok"} \cup {"Unavailable"}

\* the store after the merge patch base -> o: a field the patch names
\* replaces the stored one (a list, such as the finalizers, as a whole)
Patched(base, o) ==
  [store EXCEPT !.rv = @ + 1,
                !.fin = IF o.fin # base.fin THEN o.fin ELSE @,
                !.body = IF o.body # base.body THEN o.body ELSE @]

FinishFZ(c, e) == [c EXCEPT !.pc = "done", !.err = e]

\* EnsureFinalizer or DeleteFinalizer is called for marker m with the
\* caller's in-memory object, which may or may not list the marker
FZStart(p) ==
  /\ fz[p].pc = "idle"
  /\ \E o \in {"Ensure", "Delete"}, m \in Markers, has \in BOOLEAN :
       LET f == IF has THEN <<m>> ELSE <<>> IN
       fz' = [fz EXCEPT ![p] =
                [@ EXCEPT !.pc = "get", !.op = o, !.marker = m,
                          !.left = DefaultRetrySteps, !.obj.fin = f]]
  /\ UNCHANGED <<store, ctxDone, tu, rc, parents, cu>>

\* one run of the retried func, up to the patch: Get, ContainsFinalizer,
\* DeepCopyObject, AddFinalizer / RemoveFinalizer
FZAttempt(p) ==
  /\ fz[p].pc = "get"
  /\ \E ans \in FinGetAnswers :
       LET c == [fz[p] EXCEPT !.nGet = @ + 1, !.getAns = ans]
           o == IF ans = "ok" THEN Fetched(c.obj) ELSE c.obj
           tolerated == c.op = "Delete" /\ ans = "NotFound"
           has == ContainsFinalizer(o, c.marker)
           changed == IF c.op = "Ensure"
                      THEN AddFinalizer(o.fin, c.marker)
                      ELSE RemoveFinalizer(o.fin, c.marker)
       IN fz' = [fz EXCEPT ![p] =
                   IF ans # "ok" /\ ~tolerated THEN FinishFZ(c, ans)
                   ELSE IF has = (c.op = "Ensure")
                     THEN FinishFZ([c EXCEPT !.obj = o], "nil")
                   ELSE [c EXCEPT !.pc = "patch", !.base = o,
                                  !.obj = [o EXCEPT !.fin = changed]]]
  /\ UNCHANGED <<store, ctxDone, tu, rc, parents, cu>>

\* c.Patch with the merge patch from beforePatch, and RetryOnConflict's
\* handling of its error: retry while steps are left, else the last error
FZPatch(p) ==
  /\ fz[p].pc = "patch"
  /\ \E ans \in PatchAnswers(fz[p].base) :
       LET c == [fz[p] EXCEPT !.nPatch = @ + 1, !.patchAns = ans,
                              !.base = ZeroObj] IN
       /\ store' = IF ans = "ok" THEN Patched(fz[p].base, c.obj) ELSE store
       /\ fz' = [fz EXCEPT ![p] =
                   IF ans = "ok"
                     THEN FinishFZ([c EXCEPT !.obj.rv = store.rv + 1], "nil")
                   ELSE IF ~FinRetriable(ans) THEN FinishFZ(c, ans)
                   ELSE IF c.left = 1
                     THEN FinishFZ([c EXCEPT !.nConflict = @ + 1], ans)
                   ELSE [c EXCEPT !.nConflict = @ + 1, !.left = @ - 1,
                                  !.pc = "get"]]
  /\ UNCHANGED <<ctxDone, tu, rc, parents, cu>>

(* ----------------------- SecretReconciler.Reconcile -------------------- *)

\* the caller that runs Reconcile and, from it, the finalizer helpers
Reconciler == 1

\* ClassFilter.Responsible: the parent has the filter's class
Responsible(parent) == parent.class = FilterClass

\* a membership test that takes every parent for the reconciler's own
ReferencedAnyClass ==
  \E k \in ParentIds :
    /\ parents[k].present
    /\ parents[k].ns = SecretNamespace
    /\ parents[k].refs

\* the membership decision over List(InNamespace(secret.Namespace)): some
\* listed parent has the filter's class and references the secret
Referenced ==
  \E k \in ParentIds :
    /\ parents[k].present
    /\ parents[k].ns = SecretNamespace
    /\ Responsible(parents[k])
    /\ parents[k].refs

\* a failure path that always asks for a requeue
ResultOfAlwaysRequeue(e) == [err |-> e, requeueAfter |-> RequeueAfterSeconds]

\* what Reconcile returns once the finalizer helper has returned e
ResultOf(e) ==
  [err |-> e, requeueAfter |-> IF e = "nil" THEN 0 ELSE RequeueAfterSeconds]

\* a decision that patches whether or not the marker state already matches
MutationAlways(referenced, has) == IF referenced THEN "Ensure" ELSE "Delete"

\* Mutating: which helper the decision calls for, if any
Mutation(referenced, has) ==
  IF referenced /\ ~has THEN "Ensure"
  ELSE IF ~referenced /\ has THEN "Delete"
  ELSE "none"

\* a vanished object taken for a failure
GetResultStrict(ans) == ans

\* Fetching: not-found is a terminal success, any other error is returned
GetResult(ans) == IF ans = "NotFound" THEN "nil" ELSE ans

\* a failed list that is ignored, the parents taken to be none
ListFailsIgnored(ans) == FALSE

\* Deciding: a failed List ends the reconciliation
ListFails(ans) == ans # "ok"

FinishRC(c, e, after) ==
  [c EXCEPT !.pc = "done", !.err = e, !.requeueAfter = after]

\* EnsureFinalizer / DeleteFinalizer is entered with the caller's object
CallFZ(op, m, o) ==
  [IdleFZ EXCEPT !.pc = "get", !.op = op, !.marker = m,
                 !.left = DefaultRetrySteps, !.obj = o]

\* how the previous Reconcile left the secret, seen when the next one is
\* dispatched: "ok" (it succeeded and the marker tracks the membership),
\* "stale" (it succeeded on a decision the parents have outdated), "none"
PreviousRun ==
  IF rc.pc = "done" /\ rc.err = "nil" /\ rc.getAns = "ok" /\ store.exists
  THEN IF ContainsFinalizer(store, FilterMarker) <=> Referenced
       THEN "ok" ELSE "stale"
  ELSE "none"

\* the dispatcher hands the secret to Reconcile (one call at a time)
RecStart ==
  /\ rc.pc \in {"idle", "done"}
  /\ rc' = [IdleRC EXCEPT !.pc = "get", !.prev = PreviousRun]
  /\ fz' = [fz EXCEPT ![Reconciler] = IdleFZ]
  /\ UNCHANGED <<store, ctxDone, tu, parents, cu>>

\* Fetching: Get of the secret
RecGet ==
  /\ rc.pc = "get"
  /\ \E ans \in FinGetAnswers :
       LET c == [rc EXCEPT !.nGet = @ + 1, !.getAns = ans] IN
       rc' = IF ans = "ok" THEN [c EXCEPT !.pc = "list", !.obj = StoredObj]
             ELSE FinishRC(c, GetResult(ans), 0)
  /\ UNCHANGED <<store, ctxDone, tu, fz, parents, cu>>

\* Deciding and the start of Mutating: List of the parents, the membership
\* decision, and the call of the helper the decision asks for
RecList ==
  /\ rc.pc = "list"
  /\ \E ans \in {"ok", "Unavailable"} :
       LET c == [rc EXCEPT !.nList = @ + 1, !.listAns = ans]
           ref == IF ans = "ok" THEN Referenced ELSE FALSE
           op == Mutation(ref, ContainsFinalizer(c.obj, FilterMarker))
       IN IF ListFails(ans)
          THEN /\ rc' = FinishRC(c, ans, 0)
               /\ fz' = fz
          ELSE IF op = "none"
          THEN /\ rc' = FinishRC([c EXCEPT !.referenced = ref], "nil", 0)
               /\ fz' = fz
          ELSE /\ rc' = [c EXCEPT !.referenced = ref, !.pc = "mutating",
                                  !.nMutate = @ + 1]
               /\ fz' = [fz EXCEPT ![Reconciler] =
                           CallFZ(op, FilterMarker, c.obj)]
  /\ UNCHANGED <<store, ctxDone, tu, parents, cu>>

\* Done: the helper has returned
RecReturn ==
  /\ rc.pc = "mutating"
  /\ fz[Reconciler].pc = "done"
  /\ LET r == ResultOf(fz[Reconciler].err) IN
       rc' = FinishRC(rc, r.err, r.requeueAfter)
  /\ UNCHANGED <<store, ctxDone, tu, fz, parents, cu>>

\* a parent resource is created, deleted, re-classed, moved or has its
\* secretRefs changed
ParentChange(maxRV) ==
  /\ store.rv < maxRV
  /\ \E k \in ParentIds, v \in ParentStates :
       /\ v # parents[k]
       /\ parents' = [parents EXCEPT ![k] = v]
  /\ rc' = IF rc.pc = "idle" THEN rc ELSE [rc EXCEPT !.dirty = TRUE]
  /\ UNCHANGED <<store, ctxDone, tu, fz, cu>>

\* another controller adds or removes its own finalizer
ExtOtherMarker(maxRV) ==
  /\ store.exists
  /\ store.rv < maxRV
  /\ store' = [store EXCEPT !.rv = @ + 1,
                            !.fin = IF ContainsFinalizer(store, "x")
                                    THEN RemoveFinalizer(@, "x")
                                    ELSE Append(@, "x")]
  /\ UNCHANGED <<ctxDone, tu, fz, rc, parents, cu>>

(* ------------------------ TypedCreateOrUpdate -------------------------- *)

\* what scheme.New gives for the object's kind: a typed client object, an
\* error (kind not registered: unstructured requests), or a type that is no
\* client object
Kinds == {"typed", "unstructured", "unsupported"}

\* the caller's mutate func
CUMutates == {"noop", "setBody", "incOrFail"}

\* the answers c.Create can give
CreateAnswers ==
  {IF store.exists THEN "AlreadyExists" ELSE "ok"} \cup {"Unavailable"}

\* the store after a successful c.Create of o
Created(o) ==
  [exists |-> TRUE, rv |-> store.rv + 1, body |-> o.body, status |-> 0,
   fin |-> o.fin]

\* a decision that writes whatever mutate did
NeedsUpdateAlways(always, existing, o) == TRUE

\* !alwaysUpdate && apiequality.Semantic.DeepEqual(existing, obj), negated
NeedsUpdate(always, existing, o) == always \/ existing # o

\* an outcome that is reported only for a write that succeeded
WriteOutcomeOnSuccess(res, ans) ==
  [result |-> IF ans = "ok" THEN res ELSE "none",
   err |-> IF ans = "ok" THEN "nil" ELSE ans]

\* return controllerutil.OperationResultCreated, c.Create(ctx, obj)
\* return controllerutil.OperationResultUpdated, c.Update(ctx, obj)
WriteOutcome(res, ans) ==
  [result |-> res, err |-> IF ans = "ok" THEN "nil" ELSE ans]

FinishCU(c, res, e) == [c EXCEPT !.pc = "done", !.result = res, !.err = e]

\* mutate(), then the way to the write: Create when the object was not
\* found, Update unless nothing changed and alwaysUpdate is unset
Mutated(c) ==
  LET cm == [c EXCEPT !.nMutate = @ + 1,
                      !.obj = ApplyTransform(c.mutate, c.obj)] IN
  IF TransformFails(c.mutate, c.obj)
    THEN FinishCU([c EXCEPT !.nMutate = @ + 1], "none", "TransformErr")
  ELSE IF ~c.found THEN [cm EXCEPT !.pc = "create"]
  ELSE IF NeedsUpdate(c.alwaysUpdate, c.existing, cm.obj)
    THEN [cm EXCEPT !.pc = "update"]
  ELSE FinishCU(cm, "none", "nil")

\* the call starts: scheme.New decides between typed and unstructured Get
CUStart ==
  /\ cu.pc \in {"idle", "done"}
  /\ store.rv < MaxRV
  /\ \E k \in Kinds, a \in BOOLEAN, mu \in CUMutates, cv \in BOOLEAN,
        b \in Bodies :
       /\ k # "typed" => cv
       /\ LET c == [IdleCU EXCEPT !.kind = k, !.alwaysUpdate = a,
                                  !.mutate = mu, !.convertOK = cv,
                                  !.obj.body = b] IN
          cu' = IF k = "unsupported"
                THEN FinishCU(c, "none", "Unsupported")
                ELSE [c EXCEPT !.pc = "get"]
  /\ UNCHANGED <<store, ctxDone, tu, fz, rc, parents>>

\* c.Get, the conversion back to unstructured, mutate() and the DeepEqual
CUGet ==
  /\ cu.pc = "get"
  /\ \E ans \in GetAnswers(FALSE) :
       LET c == [cu EXCEPT !.nGet = @ + 1, !.getAns = ans] IN
       cu' = IF ans = "NotFound" THEN Mutated([c EXCEPT !.found = FALSE])
             ELSE IF ans # "ok" THEN FinishCU(c, "none", ans)
             ELSE IF c.kind = "typed" /\ ~c.convertOK
               THEN FinishCU(c, "none", "ConvertErr")
             ELSE Mutated([c EXCEPT !.found = TRUE, !.obj = StoredObj,
                                    !.existing = StoredObj])
  /\ UNCHANGED <<store, ctxDone, tu, fz, rc, parents>>

\* return controllerutil.OperationResultCreated, c.Create(ctx, obj)
CUCreate ==
  /\ cu.pc = "create"
  /\ \E ans \in CreateAnswers :
       LET out == WriteOutcome("created", ans) IN
       /\ store' = IF ans = "ok" THEN Created(cu.obj) ELSE store
       /\ cu' = FinishCU([cu EXCEPT !.nCreate = @ + 1, !.writeAns = ans],
                         out.result, out.err)
  /\ UNCHANGED <<ctxDone, tu, fz, rc, parents>>

\* return controllerutil.OperationResultUpdated, c.Update(ctx, obj)
CUUpdate ==
  /\ cu.pc = "update"
  /\ \E ans \in UpdateAnswers(cu.obj, FALSE) :
       LET out == WriteOutcome("updated", ans) IN
       /\ store' = IF ans = "ok" THEN Committed(cu.obj, "update") ELSE store
       /\ cu' = FinishCU([cu EXCEPT !.nUpdate = @ + 1, !.writeAns = ans],
                         out.result, out.err)
  /\ UNCHANGED <<ctxDone, tu, fz, rc, parents>>

(* --------------------------- other writers ----------------------------- *)

\* another writer replaces the body or the status of the object
ExtWrite ==
  /\ store.exists
  /\ store.rv < MaxRV
  /\ \E b \in Bodies, s \in Statuses :
       /\ (b = store.body) # (s = store.status)
       /\ store' = [store EXCEPT !.rv = @ + 1, !.body = b, !.status = s]
  /\ UNCHANGED <<ctxDone, tu, fz, rc, parents, cu>>

\* the object, free of finalizers, is deleted
ExtDelete ==
  /\ store.exists
  /\ store.fin = <<>>
  /\ store' = [store EXCEPT !.exists = FALSE]
  /\ UNCHANGED <<ctxDone, tu, fz, rc, parents, cu>>

\* another writer adds or removes a finalizer
ExtFinWrite(maxRV) ==
  /\ store.exists
  /\ store.rv < maxRV
  /\ \E m \in AllMarkers :
       store' = [store EXCEPT !.rv = @ + 1,
                              !.fin = IF ContainsFinalizer(store, m)
                                      THEN RemoveFinalizer(@, m)
                                      ELSE Append(@, m)]
  /\ UNCHANGED <<ctxDone, tu, fz, rc, parents, cu>>

Next ==
  \/ \E p \in Solo : TUStart(p)
  \/ \E p \in Solo : TUAttempt(p)
  \/ \E p \in Solo : TUWrite(p)
  \/ \E p \in Solo : TUSleep(p)
  \/ \E p \in Solo : Cancel(p)
  \/ ExtWrite
  \/ ExtDelete

Spec == Init /\ [][Next]_vars

NextRace ==
  \/ \E p \in Procs : TUStartRace(p)
  \/ \E p \in Procs : TUAttempt(p)
  \/ \E p \in Procs : TUWrite(p)
  \/ \E p \in Procs : TUSleep(p)
  \/ ExtWrite

SpecRace == Init /\ [][NextRace]_vars

\* the stored object starts with any duplicate-free list of up to two
\* finalizers
InitFin ==
  /\ store \in [exists : {TRUE}, rv : {1}, body : {0}, status : {0},
                fin : {<<>>} \cup {<<m>> : m \in AllMarkers}
                        \cup {<<m, n>> : <<m, n>> \in
                                {q \in AllMarkers \X AllMarkers : q[1] # q[2]}}]
  /\ ctxDone = [p \in Procs |-> FALSE]
  /\ tu = [p \in Procs |-> IdleTU]
  /\ fz = [p \in Procs |-> IdleFZ]
  /\ Quiet

NextFin ==
  \/ \E p \in Procs : FZStart(p)
  \/ \E p \in Procs : FZAttempt(p)
  \/ \E p \in Procs : FZPatch(p)
  \/ ExtFinWrite(MaxRV)
  \/ ExtDelete

SpecFin == InitFin /\ [][NextFin]_vars

\* one caller against other writers that outlast all of its retries
NextFinSolo ==
  \/ \E p \in Solo : FZStart(p)
  \/ \E p \in Solo : FZAttempt(p)
  \/ \E p \in Solo : FZPatch(p)
  \/ ExtFinWrite(MaxFinRV)
  \/ ExtDelete

SpecFinSolo == InitFin /\ [][NextFinSolo]_vars

\* Reconcile runs for every configuration of the parents and either prior
\* marker state, against other writers of the secret's finalizers
InitRec ==
  /\ store \in [exists : {TRUE}, rv : {1}, body : {0}, status : {0},
                fin : {<<>>, <<FilterMarker>>, <<"x">>, <<"x", FilterMarker>>}]
  /\ ctxDone = [p \in Procs |-> FALSE]
  /\ tu = [p \in Procs |-> IdleTU]
  /\ fz = [p \in Procs |-> IdleFZ]
  /\ rc = IdleRC
  /\ parents \in [ParentIds -> ParentStates]
  /\ cu = IdleCU

NextRec ==
  \/ RecStart
  \/ RecGet
  \/ RecList
  \/ FZAttempt(Reconciler)
  \/ FZPatch(Reconciler)
  \/ RecReturn
  \/ ExtOtherMarker(MaxFinRV)
  \/ ExtDelete

SpecRec == InitRec /\ [][NextRec]_vars

\* Reconcile runs again and again while the parents change and another
\* controller writes its own finalizer
NextRecParents ==
  \/ RecStart
  \/ RecGet
  \/ RecList
  \/ FZAttempt(Reconciler)
  \/ FZPatch(Reconciler)
  \/ RecReturn
  \/ ParentChange(MaxRV)
  \/ ExtOtherMarker(MaxRV)

SpecRecParents == InitRec /\ [][NextRecParents]_vars

\* one TryUpdate call with a backoff policy, next to a writer of another
\* finalizer
NextBackoff ==
  \/ \E p \in Solo : TUStartBackoff(p)
  \/ \E p \in Solo : TUAttempt(p)
  \/ \E p \in Solo : TUWrite(p)
  \/ \E p \in Solo : TUSleep(p)
  \/ ExtOtherMarker(MaxFinRV)

SpecBackoff == Init /\ [][NextBackoff]_vars

\* the calls of Spec, where every started call keeps taking its steps: a
\* store call returns and a sleep ends
Fairness ==
  \A p \in Solo : WF_vars(TUAttempt(p) \/ TUWrite(p) \/ TUSleep(p))

SpecLive == Spec /\ Fairness

\* TypedCreateOrUpdate on an object that may or may not exist, next to
\* other writers
InitCU ==
  /\ store \in [exists : BOOLEAN, rv : {1}, body : Bodies, status : {0},
                fin : {<<>>}]
  /\ ctxDone = [p \in Procs |-> FALSE]
  /\ tu = [p \in Procs |-> IdleTU]
  /\ fz = [p \in Procs |-> IdleFZ]
  /\ Quiet

NextCU ==
  \/ CUStart
  \/ CUGet
  \/ CUCreate
  \/ CUUpdate
  \/ ExtWrite
  \/ ExtDelete

SpecCU == InitCU /\ [][NextCU]_vars

(* ------------------------------ claims --------------------------------- *)

\* a finished call in which every attempt reached the write and every write
\* was answered with Conflict, with no cancellation
AllConflict(c) ==
  /\ c.pc = "done"
  /\ c.mode = "update"
  /\ c.steps >= 1
  /\ c.nWrite = c.nGet
  /\ c.nConflict = c.nWrite

\* C1: a call with step budget steps >= 1 whose every write is answered with
\* Conflict makes exactly `steps` fetch+transform+write attempts and then
\* fails with ErrWaitTimeout.
C1_BudgetExhaustion ==
  \A p \in Procs :
    (AllConflict(tu[p]) /\ ~ctxDone[p]) =>
      /\ tu[p].nGet = tu[p].steps
      /\ tu[p].nTransform = tu[p].steps
      /\ tu[p].nWrite = tu[p].steps
      /\ tu[p].err = "ErrWaitTimeout"

\* C2: with steps >= 3 and no cancellation, a TryUpdate call whose first two
\* writes are answered with Conflict, and which the store fails in no other
\* way, returns success after exactly three fetch+transform cycles and three
\* writes, and the store then holds the object it wrote.
C2_RetryThenSucceed ==
  \A p \in Procs :
    ( /\ tu[p].pc = "done"
      /\ tu[p].mode = "update"
      /\ tu[p].transform = "incBody"
      /\ tu[p].steps >= 3
      /\ ~ctxDone[p]
      /\ tu[p].nConflict = 2
      /\ tu[p].err \notin {"NotFound", "Unavailable"} ) =>
      /\ tu[p].err = "nil"
      /\ tu[p].nGet = 3
      /\ tu[p].nTransform = 3
      /\ tu[p].nWrite = 3
      /\ (store.rv = tu[p].obj.rv => store.body = tu[p].obj.body)

\* C3: once the cancellation signal has fired during a backoff sleep, the
\* call makes no further fetch and, when it returns, returns Canceled.
C3_CancelDuringSleep ==
  \A p \in Procs :
    (tu[p].cancelInSleep /\ tu[p].mode = "update") =>
      /\ tu[p].nGet = tu[p].getsAtCancel
      /\ tu[p].pc = "done" => tu[p].err = "Canceled"

\* C4: an attempt of TryUpdate or TryUpdateStatus whose transform leaves the
\* object equal to the snapshot taken after the fetch ends the call with
\* success, issues no write and no sleep, and the finished call does nothing
\* more.
C4_NoopShortCircuit ==
  [][\A p \in Procs :
       /\ ( /\ tu'[p].nTransform = tu[p].nTransform + 1
            /\ tu'[p].err # "TransformErr"
            /\ tu'[p].obj = tu'[p].before ) =>
            /\ tu'[p].pc = "done"
            /\ tu'[p].err = "nil"
            /\ tu'[p].nWrite = tu[p].nWrite
            /\ tu'[p].nSleep = tu[p].nSleep
            /\ store' = store
       /\ tu[p].pc = "done" => tu'[p] = tu[p]]_vars

\* a no-op is recognised in a second attempt, after a first write conflicted
C4_Witness ==
  \E p \in Procs :
    /\ tu[p].pc = "done"
    /\ tu[p].err = "nil"
    /\ tu[p].transform = "setBody"
    /\ tu[p].nGet = 2
    /\ tu[p].nWrite = 1

\* C5: a Get error, a transform error or a write error other than Conflict
\* ends the call in that attempt with that error and with no further fetch,
\* transform, write or sleep (no write at all in the attempt whose transform
\* failed); a sleep follows only a write answered with Conflict.
C5_RetryOnlyOnConflict ==
  [][\A p \in Procs :
       /\ (tu'[p].nGet = tu[p].nGet + 1 /\ tu'[p].getAns # "ok") =>
            /\ tu'[p].pc = "done"
            /\ tu'[p].err = tu'[p].getAns
            /\ tu'[p].nTransform = tu[p].nTransform
            /\ tu'[p].nWrite = tu[p].nWrite
            /\ tu'[p].nSleep = tu[p].nSleep
            /\ store' = store
       /\ ( /\ tu'[p].nTransform = tu[p].nTransform + 1
            /\ TransformFails(tu[p].transform, StoredObj) ) =>
            /\ tu'[p].pc = "done"
            /\ tu'[p].err = "TransformErr"
            /\ tu'[p].nWrite = tu[p].nWrite
            /\ tu'[p].nSleep = tu[p].nSleep
            /\ store' = store
       /\ ( /\ tu'[p].nWrite = tu[p].nWrite + 1
            /\ tu'[p].writeAns \notin {"ok", "Conflict"} ) =>
            /\ tu'[p].pc = "done"
            /\ tu'[p].err = tu'[p].writeAns
            /\ tu'[p].nSleep = tu[p].nSleep
            /\ store' = store
       /\ tu'[p].nSleep = tu[p].nSleep + 1 =>
            /\ tu'[p].nWrite = tu[p].nWrite + 1
            /\ tu'[p].writeAns = "Conflict"
       /\ tu[p].pc = "done" => tu'[p] = tu[p]]_vars

\* a transform error ends a call in its second attempt, after one retry
C5_Witness ==
  \E p \in Procs :
    /\ tu[p].pc = "done"
    /\ tu[p].err = "TransformErr"
    /\ tu[p].nGet = 2
    /\ tu[p].nWrite = 1
    /\ tu[p].nSleep = 1

\* C6: a write of TryUpdate is committed only with the resourceVersion its
\* own attempt fetched still current, so the committed state is the transform
\* applied to the state just before the commit; a write answered with
\* Conflict changes nothing, and every attempt starts from a fresh fetch.
C6_NoLostUpdate ==
  [][\A p \in Procs :
       /\ ( /\ tu[p].pc = "update"
            /\ tu'[p].pc # "update"
            /\ tu[p].mode = "update"
            /\ store' # store ) =>
            /\ tu[p].obj.rv = store.rv
            /\ tu'[p].writeAns = "ok"
            /\ store'.body = ApplyTransform(tu[p].transform, StoredObj).body
            /\ store'.status = store.status
            /\ store'.rv = store.rv + 1
       /\ ( /\ tu'[p].nWrite = tu[p].nWrite + 1
            /\ tu'[p].writeAns = "Conflict" ) =>
            /\ store' = store
            /\ tu'[p].pc \in {"sleep", "done"}
       /\ ( /\ tu'[p].nGet = tu[p].nGet + 1
            /\ tu'[p].pc = "update" ) =>
            /\ tu'[p].before = StoredObj
            /\ tu'[p].obj = ApplyTransform(tu[p].transform, StoredObj)]_vars

\* both racing callers have committed, one of them after losing a write
C6_Witness ==
  /\ \A p \in Procs : tu[p].pc = "done" /\ tu[p].err = "nil" /\ tu[p].nWrite >= 1
  /\ \E p \in Procs : tu[p].nConflict >= 1 /\ tu[p].transform = "incBody"

PatchCommits(p) ==
  /\ fz[p].pc = "patch"
  /\ fz'[p].nPatch = fz[p].nPatch + 1
  /\ fz'[p].patchAns = "ok"

\* C8: a committed patch of EnsureFinalizer / DeleteFinalizer changes the
\* presence of the call's own marker only: every other marker is in the
\* store right after the commit iff it was right before it.
C8_OtherMarkersKept ==
  [][\A p \in Procs :
       PatchCommits(p) =>
         /\ \A m \in AllMarkers \ {fz[p].marker} :
              ContainsFinalizer(store', m) <=> ContainsFinalizer(store, m)
         /\ ContainsFinalizer(store', fz[p].marker) <=> (fz[p].op = "Ensure")]_vars

\* two calls for different markers have both committed, one after a Conflict,
\* and the store holds another marker besides
C8_Witness ==
  /\ fz[1].marker # fz[2].marker
  /\ \A p \in Procs : fz[p].pc = "done" /\ fz[p].err = "nil" /\ fz[p].nPatch >= 1
  /\ \E p \in Procs : fz[p].nConflict >= 1
  /\ \E m \in AllMarkers \ {fz[1].marker, fz[2].marker} :
       ContainsFinalizer(store, m)

\* C9: whenever the fetch of DeleteFinalizer reports not-found, the call
\* returns success and issues no write, whatever the caller's copy lists.
C9_DeleteToleratesNotFound ==
  \A p \in Procs :
    (fz[p].op = "Delete" /\ fz[p].getAns = "NotFound") =>
      /\ fz[p].pc = "done"
      /\ fz[p].err = "nil"
      /\ fz[p].nPatch = fz[p].nConflict

\* C10: EnsureFinalizer decides on the state it has just fetched: marker
\* present: success, no write; marker absent: a patch whose base is the
\* fetched state and whose only change appends the marker, committed only
\* against the fetched resourceVersion; object missing: NotFound, no write.
C10_EnsureOnFetchedState ==
  [][\A p \in Procs :
       /\ (fz[p].op = "Ensure" /\ fz'[p].nGet = fz[p].nGet + 1) =>
            /\ ( /\ fz'[p].getAns = "ok"
                 /\ ContainsFinalizer(store, fz[p].marker) ) =>
                 /\ fz'[p].pc = "done"
                 /\ fz'[p].err = "nil"
                 /\ fz'[p].nPatch = fz[p].nPatch
                 /\ store' = store
            /\ ( /\ fz'[p].getAns = "ok"
                 /\ ~ContainsFinalizer(store, fz[p].marker) ) =>
                 /\ fz'[p].pc = "patch"
                 /\ fz'[p].base = StoredObj
                 /\ fz'[p].obj =
                      [StoredObj EXCEPT !.fin = Append(@, fz[p].marker)]
            /\ fz'[p].getAns = "NotFound" =>
                 /\ fz'[p].pc = "done"
                 /\ fz'[p].err = "NotFound"
                 /\ fz'[p].nPatch = fz[p].nPatch
                 /\ store' = store
       /\ (fz[p].op = "Ensure" /\ PatchCommits(p)) =>
            /\ fz[p].base.rv = store.rv
            /\ store'.fin = Append(store.fin, fz[p].marker)
            /\ store'.body = store.body]_vars

\* an EnsureFinalizer call lost one patch, fetched again, found the marker
\* set by someone else and returned without a second patch
C10_Witness ==
  \E p \in Procs :
    /\ fz[p].op = "Ensure"
    /\ fz[p].pc = "done"
    /\ fz[p].err = "nil"
    /\ fz[p].nGet = 2
    /\ fz[p].nPatch = 1
    /\ fz[p].nConflict = 1
    /\ Len(store.fin) >= 2

\* no one but this Reconcile call has written the secret since it fetched it
NoConcurrentChange ==
  /\ store.exists
  /\ store.rv = rc.obj.rv
       + (IF rc.nMutate = 1 /\ fz[Reconciler].patchAns = "ok" THEN 1 ELSE 0)

\* C11: after one Reconcile that succeeds with no concurrent change, the
\* secret carries the filter's marker iff some parent in its namespace has
\* the filter's class and references it, whatever the marker state before.
C11_Convergence ==
  ( /\ rc.pc = "done"
    /\ rc.err = "nil"
    /\ rc.getAns = "ok"
    /\ NoConcurrentChange ) =>
    (ContainsFinalizer(store, FilterMarker) <=> Referenced)

\* a parent of another class references the secret, none of the filter's
\* class does, and Reconcile has removed the marker
C11_Witness ==
  /\ rc.pc = "done"
  /\ rc.err = "nil"
  /\ NoConcurrentChange
  /\ fz[Reconciler].op = "Delete"
  /\ fz[Reconciler].patchAns = "ok"
  /\ ~ContainsFinalizer(store, FilterMarker)
  /\ \E k \in ParentIds :
       /\ parents[k].present
       /\ parents[k].ns = SecretNamespace
       /\ parents[k].class = "other"
       /\ parents[k].refs

\* C12: when the marker state already matches the membership decision,
\* Reconcile makes one Get and one List, calls no helper (so issues no write)
\* and returns done without requeue; a Reconcile dispatched after one that
\* left the marker in line with the unchanged parents calls no helper either.
C12_Idempotence ==
  /\ ( /\ rc.pc = "done"
       /\ rc.listAns = "ok"
       /\ rc.referenced <=> ContainsFinalizer(rc.obj, FilterMarker) ) =>
       /\ rc.nGet = 1
       /\ rc.nList = 1
       /\ rc.nMutate = 0
       /\ fz[Reconciler].pc = "idle"
       /\ rc.err = "nil"
       /\ rc.requeueAfter = 0
  /\ rc.prev = "ok" =>
       /\ rc.nMutate = 0
       /\ fz[Reconciler].pc = "idle"

\* a second Reconcile, after a first one that patched, is done with no write
C12_Witness ==
  /\ rc.pc = "done"
  /\ rc.prev = "ok"
  /\ rc.listAns = "ok"
  /\ rc.referenced
  /\ store.rv = 2
  /\ ContainsFinalizer(store, FilterMarker)

\* C13: a Get answered not-found makes Reconcile return done (no error, no
\* requeue), any other Get error makes it return that error; in both cases
\* no List and no write follows.
C13_VanishedObject ==
  rc.getAns \in {"NotFound", "Unavailable"} =>
    /\ rc.pc = "done"
    /\ rc.err = (IF rc.getAns = "NotFound" THEN "nil" ELSE rc.getAns)
    /\ rc.getAns = "NotFound" => rc.requeueAfter = 0
    /\ rc.nList = 0
    /\ rc.nMutate = 0
    /\ fz[Reconciler].pc = "idle"

\* the secret was deleted before the Get
C13_Witness ==
  /\ rc.getAns = "NotFound"
  /\ rc.pc = "done"
  /\ ~store.exists

\* C14: a failed List makes Reconcile return that error and call no helper:
\* no mutation of the secret is attempted.
C14_ListFails ==
  rc.listAns = "Unavailable" =>
    /\ rc.pc = "done"
    /\ rc.err = "Unavailable"
    /\ rc.nMutate = 0
    /\ fz[Reconciler].pc = "idle"

\* the List failed for a secret that carries the marker
C14_Witness ==
  /\ rc.listAns = "Unavailable"
  /\ ContainsFinalizer(rc.obj, FilterMarker)
  /\ ~Referenced

\* C15: a failed marker add or remove (any error of the helper, Conflict
\* included) makes Reconcile return that error with a requeue delay of
\* RequeueAfterSeconds; a successful one returns done with no requeue; no
\* requeue delay is ever returned without an error.
C15_FailedMutation ==
  rc.pc = "done" =>
    /\ rc.nMutate = 1 =>
         /\ rc.err = fz[Reconciler].err
         /\ rc.requeueAfter =
              (IF fz[Reconciler].err = "nil" THEN 0 ELSE RequeueAfterSeconds)
    /\ rc.err = "nil" => rc.requeueAfter = 0
    /\ rc.requeueAfter \in {0, RequeueAfterSeconds}

\* the helper gave up on Conflict and Reconcile asks for a requeue
C15_Witness ==
  /\ rc.pc = "done"
  /\ rc.err = "Conflict"
  /\ rc.requeueAfter = RequeueAfterSeconds
  /\ fz[Reconciler].nConflict = DefaultRetrySteps

\* C16: TypedCreateOrUpdate, when nothing fails (the call returns no
\* error): one Get and one mutate; object not found -> one Create, no
\* Update, outcome created; found, alwaysUpdate unset and the mutated object
\* equal to the fetched one -> no write, outcome none; found otherwise -> one
\* Update, no Create, outcome updated. Mutate never runs twice and runs
\* before the write.
C16_DecisionTable ==
  /\ cu.nMutate <= 1
  /\ cu.pc \in {"create", "update"} =>
       cu.nMutate = 1 /\ cu.nCreate = 0 /\ cu.nUpdate = 0
  /\ cu.nCreate + cu.nUpdate > 0 => cu.nMutate = 1
  /\ (cu.pc = "done" /\ cu.err = "nil") =>
       /\ cu.nGet = 1
       /\ cu.nMutate = 1
       /\ ~cu.found =>
            cu.nCreate = 1 /\ cu.nUpdate = 0 /\ cu.result = "created"
       /\ (cu.found /\ ~cu.alwaysUpdate /\ cu.obj = cu.existing) =>
            cu.nCreate = 0 /\ cu.nUpdate = 0 /\ cu.result = "none"
       /\ (cu.found /\ (cu.alwaysUpdate \/ cu.obj # cu.existing)) =>
            cu.nCreate = 0 /\ cu.nUpdate = 1 /\ cu.result = "updated"

\* alwaysUpdate makes the call write an object that mutate left unchanged
C16_Witness ==
  /\ cu.pc = "done"
  /\ cu.err = "nil"
  /\ cu.kind = "typed"
  /\ cu.found
  /\ cu.alwaysUpdate
  /\ cu.obj = cu.existing
  /\ cu.result = "updated"
  /\ store.rv = cu.obj.rv + 1

\* C17: every step of a TryUpdateStatus call leaves the stored body and the
\* stored finalizers as they are, whatever the transform did to the object
\* in memory; only the status (and the resourceVersion) may change.
C17_StatusOnly ==
  [][\A p \in Solo :
       (tu[p].mode = "status" /\ tu'[p] # tu[p]) =>
         /\ store'.exists = store.exists
         /\ store'.body = store.body
         /\ store'.fin = store.fin]_vars

\* a transform that set body and status has been written: only the status
\* arrived in the store
C17_Witness ==
  \E p \in Solo :
    /\ tu[p].mode = "status"
    /\ tu[p].transform = "setBoth"
    /\ tu[p].pc = "done"
    /\ tu[p].err = "nil"
    /\ tu[p].writeAns = "ok"
    /\ tu[p].obj.body = 1
    /\ store.body = 0
    /\ store.status = 1

RECURSIVE Power(_, _)
Power(b, e) == IF e = 0 THEN 1 ELSE b * Power(b, e - 1)

\* the base duration of the k-th sleep: the initial duration, multiplied
\* k - 1 times by the factor and cut down to whole nanoseconds each time
RECURSIVE BaseOfSleep(_, _, _)
BaseOfSleep(k, initial, f) ==
  IF k = 1 THEN initial
  ELSE (BaseOfSleep(k - 1, initial, f) * f.num) \div f.den

\* the last sleep of call c is its base without jitter, and within
\* [base, base * (1 + jitter)] with jitter
JitterBounds(c) ==
  IF c.jitter.num = 0 THEN c.lastSleep = c.lastBase
  ELSE /\ c.lastBase <= c.lastSleep
       /\ c.lastSleep * c.jitter.den <= c.lastBase * (c.jitter.den + c.jitter.num)

\* C18 as stated: the k-th sleep of a TryUpdate call has the base duration
\* initial * factor^(k-1) and obeys the jitter bounds.
C18_ExactSchedule ==
  \A p \in Solo :
    tu[p].nSleep >= 1 =>
      /\ tu[p].lastBase * Power(tu[p].factor.den, tu[p].nSleep - 1)
           = tu[p].initial * Power(tu[p].factor.num, tu[p].nSleep - 1)
      /\ JitterBounds(tu[p])

\* C18: the k-th sleep follows the k-th failed attempt; its base duration is
\* the initial duration multiplied k - 1 times by the factor, each product
\* cut down to whole nanoseconds (so it is initial * factor^(k-1) when the
\* factor is a whole number, and the first base is the initial duration);
\* the sleep equals the base without jitter and lies in
\* [base, base * (1 + jitter)] with jitter.
C18_TruncatedSchedule ==
  \A p \in Solo :
    /\ tu[p].pc = "sleep" =>
         tu[p].nSleep = tu[p].nConflict /\ tu[p].nSleep = tu[p].nGet
    /\ tu[p].nSleep >= 1 =>
         /\ tu[p].lastBase
              = BaseOfSleep(tu[p].nSleep, tu[p].initial, tu[p].factor)
         /\ tu[p].nSleep = 1 => tu[p].lastBase = tu[p].initial
         /\ tu[p].factor.den = 1 =>
              tu[p].lastBase
                = tu[p].initial * Power(tu[p].factor.num, tu[p].nSleep - 1)
         /\ JitterBounds(tu[p])

\* the third sleep of a call whose factor is 3/2, with jitter added
C18_Witness ==
  \E p \in Solo :
    /\ tu[p].pc = "sleep"
    /\ tu[p].nSleep = 3
    /\ tu[p].factor.den = 2
    /\ tu[p].initial = MaxDuration
    /\ tu[p].lastSleep > tu[p].lastBase

\* C19 as stated, its last part: a call none of whose attempts succeeded or
\* errored returns the deadline error.
C19_DeadlineError ==
  \A p \in Solo :
    (tu[p].pc = "done" /\ tu[p].nGet = tu[p].nConflict) =>
      tu[p].err = "ErrWaitTimeout"

\* C19: every started TryUpdate / TryUpdateStatus call returns, whatever the
\* store answers and whether or not ctx is cancelled; it makes at most
\* steps attempts; a call none of whose attempts succeeded or errored
\* returns the deadline error, or the cancellation error when ctx was
\* cancelled before the check that follows a conflict.
C19_Termination ==
  /\ \A p \in Solo :
       (tu[p].pc \in {"get", "update", "sleep"}) ~> (tu[p].pc = "done")
  /\ [](\A p \in Solo :
          /\ tu[p].nGet <= tu[p].steps
          /\ (tu[p].pc = "done" /\ tu[p].nGet = tu[p].nConflict) =>
               /\ tu[p].err \in {"ErrWaitTimeout", "Canceled"}
               /\ tu[p].err = "Canceled" => ctxDone[p]
               /\ ~ctxDone[p] => tu[p].err = "ErrWaitTimeout")

\* a call ran out of its budget on two conflicts in a row
C19_Witness ==
  \E p \in Solo :
    /\ tu[p].pc = "done"
    /\ tu[p].steps > 2
    /\ tu[p].err = "ErrWaitTimeout"
    /\ tu[p].nConflict = tu[p].nGet
    /\ tu[p].nGet = 2

\* C20: a Reconcile that is dispatched after the last change of the parents
\* and succeeds leaves the marker present iff a parent of the filter's class
\* in the namespace references the secret, and so it stays while the parents
\* do not change, whatever an earlier run decided.
C20_EventualConvergence ==
  ( /\ rc.pc = "done"
    /\ rc.err = "nil"
    /\ rc.getAns = "ok"
    /\ ~rc.dirty ) =>
    (ContainsFinalizer(store, FilterMarker) <=> Referenced)

\* the previous run left a stale marker state behind and this one has
\* corrected it with a patch
C20_Witness ==
  /\ rc.pc = "done"
  /\ rc.err = "nil"
  /\ ~rc.dirty
  /\ rc.prev = "stale"
  /\ rc.nMutate = 1
  /\ fz[Reconciler].patchAns = "ok"

\* no marker name occurs twice in the list f
NoDuplicates(f) ==
  \A i, j \in 1..Len(f) : i # j => f[i] # f[j]

\* the markers that are in f and in g stand in g in the order they have in f
KeepsOrder(f, g) ==
  \A i1, i2 \in 1..Len(f), j1, j2 \in 1..Len(g) :
    (i1 < i2 /\ f[i1] = g[j1] /\ f[i2] = g[j2]) => j1 < j2

\* C21: from a duplicate-free finalizer list, every step of any interleaving
\* of EnsureFinalizer and DeleteFinalizer calls (conflicts and retries
\* included) and of other writers leaves the stored list duplicate-free and
\* keeps the markers that remain in their relative order.
C21_MarkerSet ==
  [][/\ NoDuplicates(store.fin)
     /\ NoDuplicates(store'.fin)
     /\ KeepsOrder(store.fin, store'.fin)]_vars

\* both callers have patched, one of them after a conflict, and the list
\* holds three markers
C21_Witness ==
  /\ \A p \in Procs :
       fz[p].pc = "done" /\ fz[p].err = "nil" /\ fz[p].patchAns = "ok"
  /\ \E p \in Procs : fz[p].nConflict >= 1
  /\ Len(store.fin) = 3
  /\ NoDuplicates(store.fin)

\* C22: a TypedCreateOrUpdate call that returns an error (from Get, mutate,
\* the conversion, Create or Update) reports the outcome none.
C22_OutcomeOnlyOnSuccess ==
  (cu.pc = "done" /\ cu.err # "nil") => cu.result = "none"

====
